---------------------------- MODULE Spec2Model ----------------------------
(***************************************************************************)
(* A model of the mutation-testing pipeline of mutation_tester:            *)
(*   - MutationReport (src/src/mutation/types.rs): add_result and the      *)
(*     score computation;                                                  *)
(*   - MutationRunner (src/src/mutation/runner.rs): one test run in a      *)
(*     scratch directory, under tokio's timeout;                           *)
(*   - CodeAnalyzer / CodeMutator (analyzer.rs, mutators.rs): the textual  *)
(*     scan and the in-place replacement, as operators on character        *)
(*     sequences;                                                          *)
(*   - MutationEngine (src/src/mutation/engine.rs): baseline validation,   *)
(*     the rayon fan-out over the candidates and the aggregation.          *)
(*                                                                         *)
(* Text is a sequence of one-character strings.  The sources drawn here    *)
(* are ASCII, so a byte offset and a character index coincide.             *)
(*                                                                         *)
(* An f64 is modelled by the exact rational it approximates: mutation_score*)
(* is a fraction [num, den] and execution_time_seconds is kept in          *)
(* milliseconds (the thousandths the code divides by).                     *)
(***************************************************************************)
EXTENDS Integers, Sequences, FiniteSets, TLC

VARIABLES
    report,       \* the MutationReport under construction
    runner,       \* one call of MutationRunner::run_tests_for_mutation
    engine,       \* one call of a MutationEngine entry point: its arguments,
                  \* its position, what it returned, the candidates found
    threads,      \* the rayon pool: what each worker thread is doing
    slots,        \* the collect() buffer: one slot per candidate
    now,          \* the wall clock, in milliseconds
    stats,        \* what the call has done so far (history)
    lib,          \* one direct call of the analyzer, the mutator or dry_run
    cli,          \* main.rs: the command the binary runs and how it ended
    service       \* mutation_service: the stored test and the calls on it

vars == <<report, runner, engine, threads, slots, now, stats, lib, cli, service>>

engine_vars == <<engine, threads, slots, now, stats>>

---------------------------------------------------------------------------
(* Option<T> *)

None == [some |-> FALSE]

Some(x) == [some |-> TRUE, val |-> x]

\* Result<T, E>
Ok(v) == [ok |-> TRUE, val |-> v]

Err(e) == [ok |-> FALSE, err |-> e]

IsErr(r) == ~r.ok

\* A panic (an index or a slice out of range): the call does not return.
Panic(e) == [ok |-> FALSE, err |-> e, panic |-> TRUE]

IsPanic(r) == ~r.ok /\ "panic" \in DOMAIN r

---------------------------------------------------------------------------
(* types.rs: TestOutcome, MutationResult, MutationReport *)

Killed(tests) == [tag |-> "Killed", killing_tests |-> tests]

Survived == [tag |-> "Survived"]

Timeout == [tag |-> "Timeout"]

Error == [tag |-> "Error"]

Skipped == [tag |-> "Skipped"]

\* The placeholder names run_tests_for_mutation reports for a killed mutant.
PlaceholderTests == <<"test_example_1", "test_example_2">>

\* A fraction standing for an f64.
Frac(n, d) == [num |-> n, den |-> d]

FracZero == Frac(0, 1)

MutationReport_new ==
    [ total_mutations        |-> 0,
      killed_mutations       |-> 0,
      survived_mutations     |-> 0,
      error_mutations        |-> 0,
      timeout_mutations      |-> 0,
      skipped_mutations      |-> 0,
      mutation_score         |-> FracZero,
      execution_time_seconds |-> 0,
      results                |-> << >> ]

\* A plausible slip: only killed mutants count as detected.
calculate_score_killed_only(r) ==
    LET detected     == r.killed_mutations
        total_tested == r.total_mutations - r.skipped_mutations - r.error_mutations
    IN  IF total_tested > 0
        THEN [r EXCEPT !.mutation_score = Frac(detected * 100, total_tested)]
        ELSE [r EXCEPT !.mutation_score = FracZero]

calculate_score(r) ==
    LET detected     == r.killed_mutations + r.timeout_mutations
        total_tested == r.total_mutations - r.skipped_mutations - r.error_mutations
    IN  IF total_tested > 0
        THEN [r EXCEPT !.mutation_score = Frac(detected * 100, total_tested)]
        ELSE [r EXCEPT !.mutation_score = FracZero]

Bump(r, tag) ==
    CASE tag = "Killed"   -> [r EXCEPT !.killed_mutations   = @ + 1]
      [] tag = "Survived" -> [r EXCEPT !.survived_mutations = @ + 1]
      [] tag = "Error"    -> [r EXCEPT !.error_mutations    = @ + 1]
      [] tag = "Timeout"  -> [r EXCEPT !.timeout_mutations  = @ + 1]
      [] tag = "Skipped"  -> [r EXCEPT !.skipped_mutations  = @ + 1]

\* A plausible slip: a timed-out mutant is stored but not counted.
add_result_drop_timeout(r, result) ==
    LET r1 == [r EXCEPT !.total_mutations = @ + 1,
                        !.execution_time_seconds = @ + result.execution_time_ms]
        r2 == IF result.test_result.tag = "Timeout"
              THEN r1 ELSE Bump(r1, result.test_result.tag)
        r3 == [r2 EXCEPT !.results = Append(@, result)]
    IN  calculate_score(r3)

add_result(r, result) ==
    LET r1 == [r EXCEPT !.total_mutations = @ + 1,
                        !.execution_time_seconds = @ + result.execution_time_ms]
        r2 == Bump(r1, result.test_result.tag)
        r3 == [r2 EXCEPT !.results = Append(@, result)]
    IN  calculate_score(r3)

---------------------------------------------------------------------------
(* Text helpers (str in Rust; here a sequence of one-character strings) *)

Whitespace == {" ", "\t", "\n", "\r"}

RECURSIVE split_whitespace_from(_, _, _)
\* s: the text, i: the next index, cur: the word being read
split_whitespace_from(s, i, cur) ==
    IF i > Len(s)
    THEN IF cur = << >> THEN << >> ELSE <<cur>>
    ELSE IF s[i] \in Whitespace
         THEN IF cur = << >>
              THEN split_whitespace_from(s, i + 1, << >>)
              ELSE <<cur>> \o split_whitespace_from(s, i + 1, << >>)
         ELSE split_whitespace_from(s, i + 1, Append(cur, s[i]))

split_whitespace(s) == split_whitespace_from(s, 1, << >>)

Min(S) == CHOOSE x \in S : \A y \in S : x <= y

\* Rust's s[a..b] (0-based, half-open)
Slice(s, a, b) == SubSeq(s, a + 1, b)

\* Rust's s[i] on a Vec<char> (0-based)
At(s, i) == s[i + 1]

\* The character U+00E9 (e with acute accent): two bytes in UTF-8
E_ACUTE == "U+00E9"

\* char::len_utf8
utf8_len(c) == IF c = E_ACUTE THEN 2 ELSE 1

RECURSIVE byte_len(_)
\* str::len: the length in bytes
byte_len(s) == IF s = << >> THEN 0 ELSE utf8_len(Head(s)) + byte_len(Tail(s))

\* The byte offset at which the character with 0-based index i starts
byte_offset(s, i) == byte_len(SubSeq(s, 1, i))

\* The 0-based index of the character that starts at byte offset b
char_index(s, b) == CHOOSE i \in 0..Len(s) : byte_offset(s, i) = b

\* Rust's s[a..b] on a str: a and b are byte offsets on character boundaries
ByteSlice(s, a, b) == Slice(s, char_index(s, a), char_index(s, b))

\* str::find: the byte offset of the first occurrence
str_find(s, pat) ==
    LET hits == {i \in 0..(Len(s) - Len(pat)) : Slice(s, i, i + Len(pat)) = pat}
    IN  IF hits = {} THEN None ELSE Some(byte_offset(s, Min(hits)))

contains(s, pat) == str_find(s, pat).some

starts_with(s, pat) == Len(pat) <= Len(s) /\ Slice(s, 0, Len(pat)) = pat

ends_with(s, pat) ==
    Len(pat) <= Len(s) /\ Slice(s, Len(s) - Len(pat), Len(s)) = pat

RECURSIVE trim_start(_)
trim_start(s) ==
    IF s # << >> /\ Head(s) \in Whitespace THEN trim_start(Tail(s)) ELSE s

RECURSIVE trim_end(_)
trim_end(s) ==
    IF s # << >> /\ s[Len(s)] \in Whitespace
    THEN trim_end(SubSeq(s, 1, Len(s) - 1)) ELSE s

trim(s) == trim_end(trim_start(s))

RECURSIVE split_lines(_, _)
\* The pieces of s between "\n"; the piece after the last "\n" is kept only
\* when it is not empty.
split_lines(s, cur) ==
    IF s = << >>
    THEN IF cur = << >> THEN << >> ELSE <<cur>>
    ELSE IF Head(s) = "\n"
         THEN <<cur>> \o split_lines(Tail(s), << >>)
         ELSE split_lines(Tail(s), Append(cur, Head(s)))

strip_cr(l) ==
    IF l # << >> /\ l[Len(l)] = "\r" THEN SubSeq(l, 1, Len(l) - 1) ELSE l

\* str::lines
lines(s) == LET ls == split_lines(s, << >>)
            IN  [i \in 1..Len(ls) |-> strip_cr(ls[i])]

RECURSIVE join(_, _)
\* [&str]::join
join(ls, sep) ==
    IF ls = << >> THEN << >>
    ELSE IF Len(ls) = 1 THEN ls[1]
    ELSE ls[1] \o sep \o join(Tail(ls), sep)

RECURSIVE concat(_)
\* The concatenation of a sequence of sequences
concat(ss) == IF ss = << >> THEN << >> ELSE Head(ss) \o concat(Tail(ss))

Digits == <<"0", "1", "2", "3", "4", "5", "6", "7", "8", "9">>

DigitSet == {Digits[i] : i \in 1..10}

is_ascii_digit(c) == c \in DigitSet

Letters ==
    {"a", "b", "c", "d", "e", "f", "g", "h", "i", "j", "k", "l", "m",
     "n", "o", "p", "q", "r", "s", "t", "u", "v", "w", "x", "y", "z",
     "A", "B", "C", "D", "E", "F", "G", "H", "I", "J", "K", "L", "M",
     "N", "O", "P", "Q", "R", "S", "T", "U", "V", "W", "X", "Y", "Z"}

is_alphanumeric(c) == c \in Letters \cup DigitSet \cup {E_ACUTE}

DigitValue(c) == CHOOSE v \in 0..9 : Digits[v + 1] = c

I32_MAX == 2147483647

I32_MIN == -2147483647 - 1

RECURSIVE digits_value(_, _)
\* The value of a run of digits, or -1 once it exceeds I32_MAX (checked
\* before each step, as the checked arithmetic of str::parse does).
digits_value(s, acc) ==
    IF s = << >> THEN acc
    ELSE LET d == DigitValue(Head(s))
         IN  IF acc > (I32_MAX - d) \div 10
             THEN -1
             ELSE digits_value(Tail(s), acc * 10 + d)

\* str::parse::<i32> of a run of digits: Err when the value does not fit.
parse_i32(s) ==
    IF s = << >> \/ \E i \in 1..Len(s) : ~is_ascii_digit(s[i])
    THEN Err("invalid digit")
    ELSE LET v == digits_value(s, 0)
         IN  IF v < 0 THEN Err("number too large") ELSE Ok(v)

RECURSIVE nat_to_string(_)
nat_to_string(n) ==
    IF n < 10 THEN <<Digits[n + 1]>>
    ELSE Append(nat_to_string(n \div 10), Digits[(n % 10) + 1])

\* i32::to_string
to_string(n) ==
    IF n = I32_MIN
    THEN <<"-", "2", "1", "4", "7", "4", "8", "3", "6", "4", "8">>
    ELSE IF n < 0 THEN <<"-">> \o nat_to_string(-n) ELSE nat_to_string(n)

RECURSIVE strip_leading_zeros(_)
strip_leading_zeros(s) ==
    IF Len(s) > 1 /\ Head(s) = "0" THEN strip_leading_zeros(Tail(s)) ELSE s

RECURSIVE dec_inc(_)
\* The decimal digits of n + 1, from the decimal digits of n
dec_inc(s) ==
    IF s = << >> THEN <<"1">>
    ELSE LET d == DigitValue(s[Len(s)])
             front == SubSeq(s, 1, Len(s) - 1)
         IN  IF d = 9 THEN Append(dec_inc(front), "0")
             ELSE Append(front, Digits[d + 2])

RECURSIVE dec_dec(_)
\* The decimal digits of n - 1, from the decimal digits of n > 0
dec_dec(s) ==
    LET d == DigitValue(s[Len(s)])
        front == SubSeq(s, 1, Len(s) - 1)
    IN  IF d = 0 THEN Append(dec_dec(front), "9")
        ELSE Append(front, Digits[d])


---------------------------------------------------------------------------
(* analyzer.rs: CodeAnalyzer *)

MutationCandidate(line, column, original, type, suggestions) ==
    [ line |-> line, column |-> column, original_code |-> original,
      mutation_type |-> type, suggested_mutations |-> suggestions ]

should_skip_line(config, line) ==
    \/ \E i \in 1..Len(config.excluded_patterns) :
           contains(line, config.excluded_patterns[i])
    \/ contains(line, <<"/", "/", " ", "m", "u", "t", "a", "t", "i", "o", "n", "-", "i", "g", "n", "o", "r", "e">>)
    \/ contains(line, <<"#", "[", "m", "u", "t", "a", "t", "i", "o", "n", "_", "i", "g", "n", "o", "r", "e", "]">>)
    \/ LET trimmed == trim(line)
       IN  \/ trimmed = << >>
           \/ starts_with(trimmed, <<"/", "/">>)
           \/ starts_with(trimmed, <<"#">>)
           \/ starts_with(trimmed, <<"/", "*">>)
           \/ ends_with(trimmed, <<"*", "/">>)
           \/ starts_with(trimmed, <<"f", "n", " ">>)
           \/ starts_with(trimmed, <<"p", "u", "b", " ", "f", "n", " ">>)
           \/ starts_with(trimmed, <<"l", "e", "t", " ">>)
           \/ starts_with(trimmed, <<"c", "o", "n", "s", "t", " ">>)

RECURSIVE occurrences(_, _, _, _)
\* The offsets the loop `while let Some(pos) = line[start..].find(pat)` visits,
\* where each round moves start to the found offset plus step.
occurrences(line, start, pat, step) ==
    LET f == str_find(ByteSlice(line, start, byte_len(line)), pat)
    IN  IF ~f.some THEN << >>
        ELSE <<start + f.val>> \o occurrences(line, start + f.val + step, pat, step)

CompoundChars == {"=", "!", "<", ">", "+", "-", "*", "/"}

\* pos is the byte offset that str::find returned; chars is indexed by
\* character.  chars[pos - 1] is out of range when pos exceeds chars.len().
is_standalone_operator(line, pos, op) ==
    LET chars == line
        op_end == pos + byte_len(op)
    IN  IF pos > 0 /\ pos - 1 >= Len(chars)
        THEN Panic("index out of bounds")
        ELSE Ok( /\ ~(pos > 0 /\ At(chars, pos - 1) \in CompoundChars)
                 /\ ~(op_end < Len(chars) /\ At(chars, op_end) \in CompoundChars) )

is_complete_word(line, pos, word) ==
    LET chars == line
        word_end == pos + byte_len(word)
    IN  IF pos > 0 /\ pos - 1 >= Len(chars)
        THEN Panic("index out of bounds")
        ELSE Ok( /\ ~(pos > 0 /\ (is_alphanumeric(At(chars, pos - 1))
                                   \/ At(chars, pos - 1) = "_"))
                 /\ ~(word_end < Len(chars)
                      /\ (is_alphanumeric(At(chars, word_end))
                          \/ At(chars, word_end) = "_")) )

get_arithmetic_mutations(op) ==
    CASE op = <<"+">> -> << <<"-">>, <<"*">> >>
      [] op = <<"-">> -> << <<"+">>, <<"*">> >>
      [] op = <<"*">> -> << <<"/">>, <<"+">> >>
      [] op = <<"/">> -> << <<"*">>, <<"%">> >>
      [] op = <<"%">> -> << <<"/">>, <<"*">> >>
      [] OTHER -> << >>

get_relational_mutations(op) ==
    CASE op = <<"=", "=">> -> << <<"!", "=">>, <<"<">>, <<">">> >>
      [] op = <<"!", "=">> -> << <<"=", "=">> >>
      [] op = <<"<">> -> << <<"<", "=">>, <<">">>, <<"=", "=">> >>
      [] op = <<">">> -> << <<">", "=">>, <<"<">>, <<"=", "=">> >>
      [] op = <<"<", "=">> -> << <<"<">>, <<">", "=">> >>
      [] op = <<">", "=">> -> << <<">">>, <<"<", "=">> >>
      [] OTHER -> << >>

get_logical_mutations(op) ==
    CASE op = <<"&", "&">> -> << <<"|", "|">> >>
      [] op = <<"|", "|">> -> << <<"&", "&">> >>
      [] op = <<"!">> -> << << >> >>
      [] OTHER -> << >>

\* num + 1 on an i32, wrapping at 32 bits
i32_add_one(n) == IF n = I32_MAX THEN I32_MIN ELSE n + 1

get_numeric_mutations(number) ==
    LET p == parse_i32(number)
    IN  IF p.ok
        THEN << to_string(i32_add_one(p.val)), to_string(p.val - 1),
                to_string(p.val * (-1)), <<"0">>, <<"1">> >>
        ELSE IF number # << >> /\ \A i \in 1..Len(number) : is_ascii_digit(number[i])
        \* parse::<f64> accepts every run of digits; Display prints an
        \* integral f64 without a fraction (exact up to 15 digits).
        THEN LET v == strip_leading_zeros(number)
             IN  << strip_leading_zeros(dec_inc(v)), strip_leading_zeros(dec_dec(v)),
                    <<"-">> \o v,
                    <<"0", ".", "0">>, <<"1", ".", "0">> >>
        ELSE << <<"0">>, <<"1">> >>

\* Ok(the values in order, concatenated), or the panic that ends the call
\* when one of the parts panicked
collect(parts) ==
    IF \E k \in 1..Len(parts) : IsPanic(parts[k])
    THEN Panic("index out of bounds")
    ELSE Ok(concat([k \in 1..Len(parts) |-> parts[k].val]))

\* The body of the loop over the offsets that find visits: a candidate for
\* each offset the finder's check admits; check names that test.
visit(line, line_number, positions, text, check, type, suggestions) ==
    LET verdict(i) ==
            CASE check = "is_standalone_operator" -> is_standalone_operator(line, positions[i], text)
              [] check = "is_complete_word" -> is_complete_word(line, positions[i], text)
              [] OTHER -> Ok(TRUE)
        kept == SelectSeq([i \in 1..Len(positions) |-> i], LAMBDA i : verdict(i).val)
    IN  IF \E i \in 1..Len(positions) : IsPanic(verdict(i))
        THEN Panic("index out of bounds")
        ELSE Ok([j \in 1..Len(kept) |->
                    MutationCandidate(line_number, positions[kept[j]] + 1, text, type, suggestions)])

\* The candidates of one operator table: for each operator in turn, its
\* occurrences from left to right.
operator_candidates(line, line_number, ops, step_of_len, standalone, type, table) ==
    collect([k \in 1..Len(ops) |->
                visit(line, line_number,
                      occurrences(line, 0, ops[k], IF step_of_len THEN byte_len(ops[k]) ELSE 1),
                      ops[k], IF standalone THEN "is_standalone_operator" ELSE "none",
                      type, table[k])])

ArithmeticOperators == << <<"+">>, <<"-">>, <<"*">>, <<"/">>, <<"%">> >>

find_arithmetic_operators(line, line_number) ==
    operator_candidates(line, line_number, ArithmeticOperators, FALSE, TRUE,
        "ArithmeticOperator",
        [k \in 1..Len(ArithmeticOperators) |-> get_arithmetic_mutations(ArithmeticOperators[k])])

RelationalOperators == << <<"=", "=">>, <<"!", "=">>, <<"<">>, <<">">>, <<"<", "=">>, <<">", "=">> >>

find_relational_operators(line, line_number) ==
    operator_candidates(line, line_number, RelationalOperators, TRUE, FALSE,
        "RelationalOperator",
        [k \in 1..Len(RelationalOperators) |-> get_relational_mutations(RelationalOperators[k])])

LogicalOperators == << <<"&", "&">>, <<"|", "|">>, <<"!">> >>

find_logical_operators(line, line_number) ==
    operator_candidates(line, line_number, LogicalOperators, TRUE, FALSE,
        "LogicalOperator",
        [k \in 1..Len(LogicalOperators) |-> get_logical_mutations(LogicalOperators[k])])

BooleanLiterals == << <<"t", "r", "u", "e">>, <<"f", "a", "l", "s", "e">> >>

find_boolean_literals(line, line_number) ==
    collect([k \in 1..Len(BooleanLiterals) |->
                visit(line, line_number,
                      occurrences(line, 0, BooleanLiterals[k], byte_len(BooleanLiterals[k])),
                      BooleanLiterals[k], "is_complete_word", "BooleanLiteral",
                      << IF BooleanLiterals[k] = <<"t", "r", "u", "e">>
                         THEN <<"f", "a", "l", "s", "e">> ELSE <<"t", "r", "u", "e">> >>)])

RECURSIVE digit_run_end(_, _)
\* The index after the run of digits that starts at i
digit_run_end(chars, i) ==
    IF i < Len(chars) /\ is_ascii_digit(At(chars, i))
    THEN digit_run_end(chars, i + 1) ELSE i

RECURSIVE numeric_scan(_, _, _)
numeric_scan(chars, i, line_number) ==
    IF i >= Len(chars) THEN << >>
    ELSE IF is_ascii_digit(At(chars, i))
         THEN LET e       == digit_run_end(chars, i)
                  literal == Slice(chars, i, e)
              IN  << MutationCandidate(line_number, i + 1, literal, "NumericLiteral",
                                       get_numeric_mutations(literal)) >>
                  \o numeric_scan(chars, e, line_number)
         ELSE numeric_scan(chars, i + 1, line_number)

find_numeric_literals(line, line_number) == Ok(numeric_scan(line, 0, line_number))

find_conditional_boundaries(line, line_number) == Ok(<< >>)

\* Ok(candidates), or the panic of the first finder that indexes out of range
analyze_line(config, line, line_number) ==
    collect(<< IF "ArithmeticOperator" \in config.mutation_types
               THEN find_arithmetic_operators(line, line_number) ELSE Ok(<< >>),
               IF "RelationalOperator" \in config.mutation_types
               THEN find_relational_operators(line, line_number) ELSE Ok(<< >>),
               IF "LogicalOperator" \in config.mutation_types
               THEN find_logical_operators(line, line_number) ELSE Ok(<< >>),
               IF "BooleanLiteral" \in config.mutation_types
               THEN find_boolean_literals(line, line_number) ELSE Ok(<< >>),
               IF "NumericLiteral" \in config.mutation_types
               THEN find_numeric_literals(line, line_number) ELSE Ok(<< >>),
               IF "ConditionalBoundary" \in config.mutation_types
               THEN find_conditional_boundaries(line, line_number) ELSE Ok(<< >>) >>)

\* One round of the loop over the lines
analyze_lines(config, ls) ==
    collect([n \in 1..Len(ls) |->
                IF should_skip_line(config, ls[n]) THEN Ok(<< >>)
                ELSE analyze_line(config, ls[n], n)])

\* The Vec the function returns, or the panic of the first line that panics
find_mutation_candidates(config, source_code) ==
    analyze_lines(config, lines(source_code))

\* The candidates of a source the analyzer does not panic on
candidates_of(config, source_code) ==
    LET found == find_mutation_candidates(config, source_code)
    IN  IF found.ok THEN found.val ELSE << >>

---------------------------------------------------------------------------
(* mutators.rs: CodeMutator *)

saturating_sub(a, b) == IF a > b THEN a - b ELSE 0

MinOf(a, b) == IF a < b THEN a ELSE b

SEARCH_RADIUS == 10

\* str::is_char_boundary
is_char_boundary(s, b) == \E i \in 0..Len(s) : byte_offset(s, i) = b

\* Ok(Some(offset)) or Ok(None); start, end and the offset are byte offsets,
\* and line[start..end] panics when one of them splits a character.
find_nearest_occurrence(line, around_pos, target) ==
    LET start == saturating_sub(around_pos, SEARCH_RADIUS)
        end   == MinOf(around_pos + SEARCH_RADIUS, byte_len(line))
    IN  IF ~is_char_boundary(line, start) \/ ~is_char_boundary(line, end)
        THEN Panic("byte index is not a char boundary")
        ELSE LET f == str_find(ByteSlice(line, start, end), target)
             IN  IF f.some THEN Ok(Some(start + f.val)) ELSE Ok(None)

RECURSIVE replace_operator_from(_, _, _, _, _)
\* replace_operator_at_position with the positions its earlier rounds were
\* called with.  The function depends on pos alone, so a position that comes
\* back is a recursion that never ends: the stack runs out and the process
\* aborts (a build that turns the tail call into a jump loops for ever
\* instead; in both the call never returns).
replace_operator_from(line, pos, original, replacement, tried) ==
    IF pos \in tried
    THEN Panic("stack overflow")
    ELSE IF pos >= byte_len(line)
    THEN Err("Position out of bounds")
    ELSE LET chars == line
         IN  IF pos + Len(original) > Len(chars)
             THEN Err("Original text extends beyond line")
             ELSE IF Slice(chars, pos, pos + Len(original)) # original
                  THEN LET found == find_nearest_occurrence(line, pos, original)
                       IN  IF IsPanic(found) THEN found
                           ELSE IF found.val.some
                           THEN replace_operator_from(line, found.val.val, original,
                                                      replacement, tried \cup {pos})
                           ELSE Err("Original text not found at position")
                  ELSE Ok(Slice(chars, 0, pos) \o replacement
                          \o Slice(chars, pos + Len(original), Len(chars)))

replace_operator_at_position(line, pos, original, replacement) ==
    replace_operator_from(line, pos, original, replacement, {})

is_word_boundary(chars, start, length) ==
    /\ ~(start > 0 /\ (is_alphanumeric(At(chars, start - 1)) \/ At(chars, start - 1) = "_"))
    /\ ~(start + length < Len(chars)
         /\ (is_alphanumeric(At(chars, start + length)) \/ At(chars, start + length) = "_"))

find_complete_word_at_position(line, around_pos, word) ==
    LET chars        == line
        search_start == saturating_sub(around_pos, Len(word))
        search_end   == MinOf(around_pos + Len(word), Len(chars))
        hits == {i \in search_start..search_end :
                    /\ i + Len(word) <= Len(chars)
                    /\ Slice(chars, i, i + Len(word)) = word
                    /\ is_word_boundary(chars, i, Len(word))}
    IN  IF hits = {} THEN None ELSE Some(Min(hits))

replace_literal_at_position(line, pos, original, replacement) ==
    LET found == find_complete_word_at_position(line, pos, original)
    IN  IF found.some
        THEN replace_operator_at_position(line, found.val, original, replacement)
        ELSE Err("Literal not found as complete word near position")

\* Some(<<start, end>>), None, or a panic when the column lies beyond the line
find_condition_range(line, around_pos) ==
    LET chars  == line
        if_pos == str_find(line, <<"i", "f", " ">>)
        brace  == IF if_pos.some
                  THEN str_find(Slice(line, if_pos.val + 3, Len(line)), <<" ", "{">>)
                  ELSE None
    IN  IF if_pos.some /\ brace.some
        THEN Ok(Some(<<if_pos.val + 3, if_pos.val + 3 + brace.val>>))
        ELSE IF around_pos > Len(chars)
        THEN Panic("index out of bounds")
        ELSE LET opens  == {i \in 0..(around_pos - 1) : At(chars, i) = "("}
                 closes == {i \in around_pos..(Len(chars) - 1) : At(chars, i) = ")"}
             IN  IF opens # {} /\ closes # {}
                 THEN Ok(Some(<<(CHOOSE i \in opens : \A j \in opens : j <= i) + 1,
                               Min(closes)>>))
                 ELSE Ok(None)

replace_condition_at_position(line, pos, replacement) ==
    LET r == find_condition_range(line, pos)
    IN  IF ~r.ok THEN r
        ELSE IF r.val.some
        THEN Ok(Slice(line, 0, r.val.val[1]) \o replacement
                \o Slice(line, r.val.val[2], Len(line)))
        ELSE Err("Could not find condition boundaries")

apply_line_mutation(line, candidate, mutation) ==
    LET target_pos == saturating_sub(candidate.column, 1)
        type       == candidate.mutation_type
    IN  CASE type \in {"ArithmeticOperator", "RelationalOperator", "LogicalOperator"} ->
                 replace_operator_at_position(line, target_pos,
                                              candidate.original_code, mutation)
          [] type \in {"BooleanLiteral", "NumericLiteral"} ->
                 replace_literal_at_position(line, target_pos,
                                             candidate.original_code, mutation)
          [] type = "ConditionalBoundary" ->
                 replace_condition_at_position(line, target_pos, mutation)
          [] OTHER -> Err("Unsupported mutation type")

\* A plausible slip: the line number is checked against the upper end only.
apply_mutation_line_zero(source_code, candidate, mutation) ==
    IF \A i \in 1..Len(candidate.suggested_mutations) :
           candidate.suggested_mutations[i] # mutation
    THEN Err("Mutation is not in the suggested mutations list")
    ELSE LET ls == lines(source_code)
         IN  IF candidate.line > Len(ls)
             THEN Err("Invalid line number")
             ELSE IF candidate.line = 0
             THEN Ok(source_code)
             ELSE LET m == apply_line_mutation(ls[candidate.line], candidate, mutation)
                  IN  IF ~m.ok THEN m
                      ELSE Ok(join([ls EXCEPT ![candidate.line] = m.val], <<"\n">>))

apply_mutation(source_code, candidate, mutation) ==
    IF \A i \in 1..Len(candidate.suggested_mutations) :
           candidate.suggested_mutations[i] # mutation
    THEN Err("Mutation is not in the suggested mutations list")
    ELSE LET ls == lines(source_code)
         IN  IF candidate.line = 0 \/ candidate.line > Len(ls)
             THEN Err("Invalid line number")
             ELSE LET m == apply_line_mutation(ls[candidate.line], candidate, mutation)
                  IN  IF ~m.ok THEN m
                      ELSE Ok(join([ls EXCEPT ![candidate.line] = m.val], <<"\n">>))

---------------------------------------------------------------------------
(* engine.rs: MutationEngine; the state of one call *)

\* The binary runs no command
CliIdle == [pc |-> "idle"]

\* No test is stored and no service call is under way
ServiceIdle == [pc |-> "idle"]

\* No direct call is under way
LibIdle == [pc |-> "idle", fn |-> "none"]

IdleThread == [cand |-> 0, next |-> 0, results |-> << >>, testing |-> FALSE,
               code |-> << >>, started |-> 0]

\* completion: the candidates in the order their closures returned;
\* enumerated_at: the time at which validation returned and the analyzer ran
NoStats == [baseline_exit |-> None, applied |-> 0, test_runs |-> 0,
            mutant_runs |-> 0, completion |-> << >>, enumerated_at |-> None]

EngineIdle ==
    /\ engine = [pc |-> "idle", ret |-> None]
    /\ threads = << >>
    /\ slots = << >>
    /\ now = 0
    /\ stats = NoStats

---------------------------------------------------------------------------
(* runner.rs: MutationRunner *)

\* execute_test_command up to the spawn: Err for an empty command or a failed
\* spawn, otherwise the child runs and cmd.output() blocks until it exits.
execute_test_command_spawn(test_command, spawn_ok) ==
    LET parts == split_whitespace(test_command)
    IN  IF parts = << >>
        THEN Err("Empty test command")
        ELSE IF ~spawn_ok
             THEN Err("spawn failed")
             ELSE Ok("spawned")

\* output.status.code().unwrap_or(-1): a child ended by a signal has no code.
exit_code(status) == IF status.some THEN status.val ELSE -1

\* A plausible slip: the verdict read the wrong way round.
classify_swapped(timed) ==
    IF timed.ok
    THEN IF timed.val.ok
         THEN IF timed.val.val = 0 THEN Killed(PlaceholderTests) ELSE Survived
         ELSE Error
    ELSE Timeout

\* The match on the result of timeout(..).await in run_tests_for_mutation.
classify(timed) ==
    IF timed.ok
    THEN IF timed.val.ok
         THEN IF timed.val.val = 0 THEN Survived ELSE Killed(PlaceholderTests)
         ELSE Error
    ELSE Timeout

\* The match on the result of timeout(..).await in run_baseline_tests.
baseline_classify(timed) ==
    IF timed.ok
    THEN IF timed.val.ok
         THEN IF timed.val.val = 0 THEN Ok(TRUE) ELSE Ok(FALSE)
         ELSE Err("Failed to execute baseline tests")
    ELSE Err("Baseline tests timed out")

NoDir == [exists |-> FALSE, files |-> {}]

RunnerIdle ==
    [ pc |-> "idle", timeout_seconds |-> 0, test_command |-> << >>,
      clock |-> 0, dir |-> NoDir, child |-> "none", status |-> None,
      fail |-> "none", overdue |-> FALSE, outcome |-> None ]

\* create_test_project_structure: the directory once the manifest, src/lib.rs
\* (the source under test) and src/main.rs (the stub) are written.  No code of
\* the runner or the engine calls it.
create_test_project_structure(dir) ==
    [dir EXCEPT !.files = @ \cup {"Cargo.toml", "src/lib.rs", "src/main.rs"}]

MaxClock == 3

TimeoutChoices == {1, 2}

CargoTest == <<"c", "a", "r", "g", "o", " ", "t", "e", "s", "t">>

TestCommands == { << >>, <<" ", "\t">>, CargoTest }

\* How a child can end: exit(0), exit(1), or a signal (no exit code).
ChildEnds == {Some(0), Some(1), None}

RunnerInit ==
    /\ lib = LibIdle /\ cli = CliIdle /\ service = ServiceIdle
    /\ report = MutationReport_new
    /\ EngineIdle
    /\ \E t \in TimeoutChoices, c \in TestCommands :
           runner = [RunnerIdle EXCEPT !.pc = "start",
                                       !.timeout_seconds = t,
                                       !.test_command = c]

\* Returning drops the TempDir, which removes the directory.
Return(r, outcome) ==
    [r EXCEPT !.pc = "done", !.outcome = Some(outcome), !.dir = NoDir]

\* tempdir()
CreateTempDir ==
    /\ runner.pc = "start"
    /\ \/ runner' = [runner EXCEPT !.pc = "tempdir",
                                   !.dir = [exists |-> TRUE, files |-> {}]]
       \/ runner' = Return([runner EXCEPT !.fail = "tempdir"], Error)
    /\ UNCHANGED <<cli, service, lib, report, engine_vars>>

\* fs::write(temp_dir/main.rs, mutated_code)
WriteMutant ==
    /\ runner.pc = "tempdir"
    /\ \/ runner' = [runner EXCEPT !.pc = "written",
                                   !.dir.files = @ \cup {"main.rs"}]
       \/ runner' = Return([runner EXCEPT !.fail = "write"], Error)
    /\ UNCHANGED <<cli, service, lib, report, engine_vars>>

\* The first poll of timeout(..): it polls execute_test_command, which has no
\* suspension point.  Either it fails at once (empty command, spawn error) or
\* the thread enters cmd.output() and stays there until the child exits.
PollExecute ==
    /\ runner.pc = "written"
    /\ \E spawn_ok \in BOOLEAN :
         LET res == execute_test_command_spawn(runner.test_command, spawn_ok)
         IN  IF res.ok
             THEN runner' = [runner EXCEPT !.pc = "blocked", !.child = "running"]
             ELSE runner' = Return(
                      [runner EXCEPT !.fail =
                          IF split_whitespace(runner.test_command) = << >>
                          THEN "empty_command" ELSE "spawn"],
                      classify(Ok(res)))
    /\ UNCHANGED <<cli, service, lib, report, engine_vars>>

\* One second passes on the timer that timeout(..) created.  Nothing polls the
\* timer while the thread is blocked in cmd.output().
Tick ==
    /\ runner.pc = "blocked"
    /\ runner.clock < MaxClock
    /\ runner' = [runner EXCEPT
                     !.clock = @ + 1,
                     !.overdue = @ \/ (runner.child = "running"
                                       /\ runner.clock + 1 >= runner.timeout_seconds)]
    /\ UNCHANGED <<cli, service, lib, report, engine_vars>>

\* The test command ends by itself.
ChildExit ==
    /\ runner.pc = "blocked"
    /\ runner.child = "running"
    /\ \E st \in ChildEnds :
           runner' = [runner EXCEPT !.child = "exited", !.status = st]
    /\ UNCHANGED <<cli, service, lib, report, engine_vars>>

\* cmd.output() returns, the inner future is Ready and timeout(..) yields
\* Ok(Ok(code)) whatever the timer says.
OutputReturns ==
    /\ runner.pc = "blocked"
    /\ runner.child = "exited"
    /\ runner' = Return(runner, classify(Ok(Ok(exit_code(runner.status)))))
    /\ UNCHANGED <<cli, service, lib, report, engine_vars>>

RunnerNext ==
    \/ CreateTempDir
    \/ WriteMutant
    \/ PollExecute
    \/ Tick
    \/ ChildExit
    \/ OutputReturns

SpecRunner == RunnerInit /\ [][RunnerNext]_vars

\* The runner's own steps are taken when enabled; whether and when the test
\* command exits is up to the command.
FairSpecRunner ==
    /\ SpecRunner
    /\ WF_vars(CreateTempDir) /\ WF_vars(WriteMutant) /\ WF_vars(PollExecute)
    /\ WF_vars(Tick) /\ WF_vars(OutputReturns)

---------------------------------------------------------------------------
(* engine.rs: MutationEngine::run_mutation_testing and process_candidate *)

HostCpus == 2

MaxNow == 2

TEST_MARKER == <<"#", "[", "t", "e", "s", "t", "]">>

CFG_TEST_MARKER == <<"#", "[", "c", "f", "g", "(", "t", "e", "s", "t", ")", "]">>

AllMutationTypes ==
    {"ArithmeticOperator", "RelationalOperator", "LogicalOperator",
     "BooleanLiteral", "NumericLiteral", "ConditionalBoundary"}

\* MutationTestConfig::default()
DefaultConfig ==
    [ timeout_seconds        |-> 30,
      max_mutations_per_line |-> 5,
      excluded_patterns      |-> << <<"/", "/", " ", "@", "n", "o", "-", "m", "u", "t", "a", "t", "i", "o", "n">>, CFG_TEST_MARKER, TEST_MARKER >>,
      test_command           |-> CargoTest,
      mutation_types         |-> AllMutationTypes,
      parallel_jobs          |-> Some(4),
      ast_mutations_enabled  |-> FALSE ]

Sources ==
    { <<"#", "[", "t", "e", "s", "t", "]", "\n", "a", "+", "b">>,
      <<"#", "[", "c", "f", "g", "(", "t", "e", "s", "t", ")", "]", "\n", "x", "1", "&", "&", "y", "\n", "!", "z">>,
      <<"a", "+", "b">>,
      <<"#", "[", "t", "e", "s", "t", "]">>,
      <<"#", "[", "t", "e", "s", "t", "]", "\n", "!">>,
      <<"!">>,
      <<"#", "[", "t", "e", "s", "t", "]", "\n", E_ACUTE, E_ACUTE, E_ACUTE, "+", "b">>,
      << >> }

ParallelJobs == {None, Some(1), Some(HostCpus)}

\* tempdir(), fs::write and the spawn each succeed or fail.
RunnerEnvs == [tempdir_ok : BOOLEAN, write_ok : BOOLEAN, spawn_ok : BOOLEAN]

\* The start of a test run up to cmd.output(): Some(where it ended) when the
\* run ends before a child exists, None when the child is running.
run_start(test_command, env) ==
    LET spawn == execute_test_command_spawn(test_command, env.spawn_ok)
    IN  IF ~env.tempdir_ok THEN Some([at |-> "tempdir"])
        ELSE IF ~env.write_ok THEN Some([at |-> "write"])
        ELSE IF ~spawn.ok THEN Some([at |-> "exec", timed |-> Ok(spawn)])
        ELSE None

\* run_tests_for_mutation when no child was spawned
mutation_run_failed(early) ==
    IF early.at \in {"tempdir", "write"} THEN Error ELSE classify(early.timed)

\* run_baseline_tests when no child was spawned
baseline_run_failed(early) ==
    IF early.at = "tempdir" THEN Err("Failed to create temp dir")
    ELSE IF early.at = "write" THEN Err("Failed to write original code")
    ELSE baseline_classify(early.timed)

\* A plausible slip: the second negation lost.
lacks_test_markers_slip(source_code) ==
    ~contains(source_code, TEST_MARKER) /\ contains(source_code, CFG_TEST_MARKER)

\* validate_test_setup, first statement: the source holds neither marker.
lacks_test_markers(source_code) ==
    ~contains(source_code, TEST_MARKER) /\ ~contains(source_code, CFG_TEST_MARKER)

\* validate_test_setup, after the marker check:
\*     self.run_baseline_tests(source_code).await?;  Ok(())
\* The ? passes an Err on; the bool inside Ok is dropped.
validate_after_baseline(baseline) ==
    IF baseline.ok THEN Ok("unit") ELSE baseline

\* impl From<runner::TestOutcome> for types::TestOutcome
into_outcome(o) ==
    CASE o.tag = "Killed"   -> Killed(o.killing_tests)
      [] o.tag = "Survived" -> Survived
      [] o.tag = "Timeout"  -> Timeout
      [] o.tag = "Error"    -> Error

IMPROVE_TESTS == "Add or improve tests to catch this mutation"

\* A plausible slip: the hint goes to the killed mutants.
tested_result_hint_on_killed(candidate, mutated_code, outcome, ms) ==
    [ candidate             |-> candidate,
      mutated_code          |-> mutated_code,
      test_result           |-> outcome,
      execution_time_ms     |-> ms,
      error_message         |-> None,
      killing_tests         |-> IF outcome.tag = "Killed"
                                THEN Some(outcome.killing_tests) ELSE None,
      suggested_improvement |-> IF outcome.tag = "Killed"
                                THEN Some(IMPROVE_TESTS) ELSE None ]

\* The MutationResult of the Ok arm of process_candidate
tested_result(candidate, mutated_code, outcome, ms) ==
    [ candidate             |-> candidate,
      mutated_code          |-> mutated_code,
      test_result           |-> outcome,
      execution_time_ms     |-> ms,
      error_message         |-> None,
      killing_tests         |-> IF outcome.tag = "Killed"
                                THEN Some(outcome.killing_tests) ELSE None,
      suggested_improvement |-> IF outcome = Survived
                                THEN Some(IMPROVE_TESTS) ELSE None ]

\* The MutationResult of the Err arm of process_candidate
apply_error_result(candidate, error, ms) ==
    [ candidate             |-> candidate,
      mutated_code          |-> << >>,
      test_result           |-> Error,
      execution_time_ms     |-> ms,
      error_message         |-> Some(error),
      killing_tests         |-> None,
      suggested_improvement |-> None ]

\* A plausible slip: the failure is logged and the loop moves on.
push_apply_error_dropped(results, candidate, error, ms) == results

\* results.push(..) in the Err arm
push_apply_error(results, candidate, error, ms) ==
    Append(results, apply_error_result(candidate, error, ms))

\* A plausible slip: the per-candidate vectors come back last first.
par_collect_reversed(filled) ==
    [i \in 1..Len(filled) |-> filled[Len(filled) + 1 - i].val]

\* candidates.par_iter().map(..).collect::<Vec<_>>(): slot i holds what the
\* closure returned for candidate i, whichever thread ran it and whenever.
par_collect(filled) == [i \in 1..Len(filled) |-> filled[i].val]

RECURSIVE add_all(_, _)
\* for result in mutation_results { report.add_result(result) }
add_all(r, results) ==
    IF results = << >> THEN r ELSE add_all(add_result(r, Head(results)), Tail(results))

\* The two nested loops over the collected results
aggregate(collected) == add_all(MutationReport_new, concat(collected))

\* The test commands of the calls drawn here: the default and the empty one
EngineCommands == {CargoTest, << >>}

\* A candidate no analyzer run produced, as a caller of the API may pass it
ForeignCandidate ==
    MutationCandidate(2, 1, <<"a">>, "StringLiteral", << <<"b">> >>)

\* What test_single_mutation may be called with for a source: a candidate of
\* the analyzer or a foreign one, and a replacement, suggested or not.
SingleCalls(config, src) ==
    LET cands == candidates_of(config, src)
        cs    == {cands[i] : i \in 1..Len(cands)} \cup {ForeignCandidate}
    IN  UNION {{[candidate |-> c, mutation |-> m] :
                   m \in {c.suggested_mutations[j] :
                              j \in 1..Len(c.suggested_mutations)} \cup {<<"?">>}} :
               c \in cs}

NoCall == [candidate |-> ForeignCandidate, mutation |-> << >>]

\* in_runtime: whether the threads of the rayon pool carry a tokio runtime
\* context.  The pool is global to the process and built outside the engine;
\* tokio::runtime::Handle::current() panics on a thread without a context.
EngineInit ==
    /\ lib = LibIdle /\ cli = CliIdle /\ service = ServiceIdle
    /\ report = MutationReport_new
    /\ runner = RunnerIdle
    /\ \E src \in Sources, jobs \in ParallelJobs, cmd \in EngineCommands :
         LET cfg == [DefaultConfig EXCEPT !.parallel_jobs = jobs, !.test_command = cmd]
             new == [ pc          |-> "validate",
                      entry       |-> "run_mutation_testing",
                      source_code |-> src,
                      config      |-> cfg,
                      call        |-> NoCall,
                      candidates  |-> << >>,
                      code        |-> << >>,
                      start_time  |-> 0,
                      in_runtime  |-> TRUE,
                      ret         |-> None ]
         IN  \/ \E ctx \in BOOLEAN : engine = [new EXCEPT !.in_runtime = ctx]
             \/ \E call \in SingleCalls(cfg, src) :
                    engine = [new EXCEPT !.pc = "single",
                                         !.entry = "test_single_mutation",
                                         !.call = call]
    /\ threads = [t \in 1..HostCpus |-> IdleThread]
    /\ slots = << >>
    /\ now = 0
    /\ stats = NoStats

Returns(e, value) == [e EXCEPT !.pc = "done", !.ret = Some(value)]

\* validate_test_setup: no test marker in the source
ValidateNoTests ==
    /\ engine.pc = "validate"
    /\ lacks_test_markers(engine.source_code)
    /\ engine' = Returns(engine, Err("No test functions found in source code"))
    /\ UNCHANGED <<cli, service, lib, report, runner, threads, slots, now, stats>>

\* run_baseline_tests up to cmd.output()
BaselineStart ==
    /\ engine.pc = "validate"
    /\ ~lacks_test_markers(engine.source_code)
    /\ \E env \in RunnerEnvs :
         LET early == run_start(engine.config.test_command, env)
         IN  IF early.some
             THEN /\ engine' = Returns(engine,
                        validate_after_baseline(baseline_run_failed(early.val)))
                  /\ stats' = stats
             ELSE /\ engine' = [engine EXCEPT !.pc = "baseline"]
                  /\ stats' = [stats EXCEPT !.test_runs = @ + 1]
    /\ UNCHANGED <<cli, service, lib, report, runner, threads, slots, now>>

\* The baseline's test command exits; validate_test_setup returns; the
\* analyzer runs (a panic of the analyzer unwinds through the call); an empty
\* candidate list ends the call.
BaselineExit ==
    /\ engine.pc = "baseline"
    /\ \E st \in ChildEnds :
         LET code      == exit_code(st)
             validated == validate_after_baseline(baseline_classify(Ok(Ok(code))))
             found     == find_mutation_candidates(engine.config, engine.source_code)
             cands     == found.val
         IN  /\ stats' = [stats EXCEPT !.baseline_exit = Some(code),
                                       !.enumerated_at = IF validated.ok THEN Some(now) ELSE None]
             /\ IF ~validated.ok
                THEN engine' = Returns(engine, validated) /\ slots' = slots
                ELSE IF IsPanic(found)
                THEN engine' = Returns(engine, found) /\ slots' = slots
                ELSE IF cands = << >>
                THEN engine' = Returns(engine, Ok(MutationReport_new)) /\ slots' = slots
                ELSE /\ engine' = [engine EXCEPT !.pc = "fanout", !.candidates = cands]
                     /\ slots' = [i \in 1..Len(cands) |-> None]
    /\ UNCHANGED <<cli, service, lib, report, runner, threads, now>>

Unclaimed == {i \in 1..Len(slots) :
                 ~slots[i].some /\ \A t \in 1..HostCpus : threads[t].cand # i}

ActiveUnits == Cardinality({t \in 1..HostCpus : threads[t].testing})

\* Handle::current() in the closure of the parallel map panics on a pool
\* thread without a runtime context; rayon hands the panic to the caller.
WorkerPanics ==
    /\ engine.pc = "fanout"
    /\ ~engine.in_runtime
    /\ engine' = Returns(engine, Panic("there is no reactor running"))
    /\ UNCHANGED <<cli, service, lib, report, runner, threads, slots, now, stats>>

\* A worker thread of the pool takes a candidate nobody has taken and enters
\* process_candidate for it.
TakeCandidate(t) ==
    /\ engine.pc = "fanout"
    /\ engine.in_runtime
    /\ threads[t].cand = 0
    /\ \E i \in Unclaimed :
           threads' = [threads EXCEPT ![t] = [IdleThread EXCEPT !.cand = i, !.next = 1]]
    /\ UNCHANGED <<cli, service, lib, report, runner, engine, slots, now, stats>>

\* The thread's state after it pushed one result: at the end of the loop
\* process_candidate returns and the vector lands in the candidate's slot.
AfterPush(t, results) ==
    LET th == threads[t]
        c  == engine.candidates[th.cand]
    IN  IF th.next >= Len(c.suggested_mutations)
        THEN /\ threads' = [threads EXCEPT ![t] = IdleThread]
             /\ slots' = [slots EXCEPT ![th.cand] = Some(results)]
        ELSE /\ threads' = [threads EXCEPT ![t] =
                    [th EXCEPT !.next = @ + 1, !.results = results,
                               !.testing = FALSE, !.code = << >>]]
             /\ slots' = slots

\* The history after thread t pushed one result
NoteDone(st, t) ==
    IF threads[t].next >= Len(engine.candidates[threads[t].cand].suggested_mutations)
    THEN [st EXCEPT !.completion = Append(@, threads[t].cand)]
    ELSE st

\* One round of the loop of process_candidate up to the point where the
\* thread blocks in cmd.output(): apply the mutation; on Err push the Error
\* result; on Ok start the test run, which may fail before a child exists.
StartUnit(t) ==
    /\ engine.pc = "fanout"
    /\ threads[t].cand # 0
    /\ ~threads[t].testing
    /\ LET th       == threads[t]
           c        == engine.candidates[th.cand]
           mutation == c.suggested_mutations[th.next]
           applied  == apply_mutation(engine.source_code, c, mutation)
       IN  /\ ~IsPanic(applied)
           /\ IF ~applied.ok
              THEN /\ AfterPush(t, push_apply_error(th.results, c, applied.err, 0))
                   /\ stats' = NoteDone([stats EXCEPT !.applied = @ + 1], t)
              ELSE \E env \in RunnerEnvs :
                     LET early == run_start(engine.config.test_command, env)
                     IN  IF early.some
                         THEN /\ AfterPush(t, Append(th.results,
                                     tested_result(c, applied.val,
                                         into_outcome(mutation_run_failed(early.val)), 0)))
                              /\ stats' = NoteDone([stats EXCEPT !.applied = @ + 1], t)
                         ELSE /\ threads' = [threads EXCEPT ![t] =
                                     [th EXCEPT !.testing = TRUE, !.code = applied.val,
                                                !.started = now]]
                              /\ slots' = slots
                              /\ stats' = [stats EXCEPT
                                     !.applied = @ + 1,
                                     !.test_runs = @ + 1,
                                     !.mutant_runs = @ + 1]
    /\ UNCHANGED <<cli, service, lib, report, runner, engine, now>>

\* The mutant's test command exits; cmd.output() returns; the result is pushed.
FinishUnit(t) ==
    /\ engine.pc = "fanout"
    /\ threads[t].testing
    /\ \E st \in ChildEnds :
         LET th      == threads[t]
             c       == engine.candidates[th.cand]
             outcome == into_outcome(classify(Ok(Ok(exit_code(st)))))
         IN  AfterPush(t, Append(th.results,
                 tested_result(c, th.code, outcome, now - th.started)))
    /\ stats' = NoteDone(stats, t)
    /\ UNCHANGED <<cli, service, lib, report, runner, engine, now>>

\* Every closure has returned: collect, add the results to the report in
\* order, stamp the elapsed wall-clock time and return.
Aggregate ==
    /\ engine.pc = "fanout"
    /\ \A i \in 1..Len(slots) : slots[i].some
    /\ LET r == aggregate(par_collect(slots))
           stamped == [r EXCEPT !.execution_time_seconds = now - engine.start_time]
       IN  /\ report' = stamped
           /\ engine' = Returns(engine, Ok(stamped))
    /\ UNCHANGED <<cli, service, lib, runner, threads, slots, now, stats>>

\* A millisecond passes while some test command runs.
EngineTick ==
    /\ now < MaxNow
    /\ \/ engine.pc = "baseline"
       \/ engine.pc = "single_testing"
       \/ engine.pc = "fanout" /\ ActiveUnits > 0
    /\ now' = now + 1
    /\ UNCHANGED <<cli, service, lib, report, runner, engine, threads, slots, stats>>

\* The MutationResult test_single_mutation returns
single_result(candidate, mutated_code, outcome, ms) ==
    [ candidate             |-> candidate,
      mutated_code          |-> mutated_code,
      test_result           |-> outcome,
      execution_time_ms     |-> ms,
      error_message         |-> None,
      killing_tests         |-> IF outcome.tag = "Killed"
                                THEN Some(outcome.killing_tests) ELSE None,
      suggested_improvement |-> IF outcome.tag = "Survived"
                                THEN Some(IMPROVE_TESTS) ELSE None ]

\* test_single_mutation up to cmd.output(): apply_mutation(..)? and the start
\* of the test run.
SingleStart ==
    /\ engine.pc = "single"
    /\ LET c       == engine.call.candidate
           applied == apply_mutation(engine.source_code, c, engine.call.mutation)
       IN  /\ ~IsPanic(applied)
           /\ IF ~applied.ok
              THEN /\ engine' = Returns(engine, applied)
                   /\ stats' = [stats EXCEPT !.applied = @ + 1]
              ELSE \E env \in RunnerEnvs :
                     LET early == run_start(engine.config.test_command, env)
                     IN  IF early.some
                         THEN /\ engine' = Returns(engine,
                                     Ok(single_result(c, applied.val,
                                         into_outcome(mutation_run_failed(early.val)), 0)))
                              /\ stats' = [stats EXCEPT !.applied = @ + 1]
                         ELSE /\ engine' = [engine EXCEPT !.pc = "single_testing",
                                                          !.code = applied.val,
                                                          !.start_time = now]
                              /\ stats' = [stats EXCEPT !.applied = @ + 1,
                                                        !.test_runs = @ + 1,
                                                        !.mutant_runs = @ + 1]
    /\ UNCHANGED <<cli, service, lib, report, runner, threads, slots, now>>

\* The test command of the single mutant exits.
SingleFinish ==
    /\ engine.pc = "single_testing"
    /\ \E st \in ChildEnds :
         LET outcome == into_outcome(classify(Ok(Ok(exit_code(st)))))
         IN  engine' = Returns(engine,
                 Ok(single_result(engine.call.candidate, engine.code, outcome,
                                  now - engine.start_time)))
    /\ UNCHANGED <<cli, service, lib, report, runner, threads, slots, now, stats>>

Next ==
    \/ ValidateNoTests
    \/ BaselineStart
    \/ BaselineExit
    \/ WorkerPanics
    \/ \E t \in 1..HostCpus : TakeCandidate(t)
    \/ \E t \in 1..HostCpus : StartUnit(t)
    \/ \E t \in 1..HostCpus : FinishUnit(t)
    \/ Aggregate
    \/ SingleStart
    \/ SingleFinish
    \/ EngineTick

Spec == EngineInit /\ [][Next]_vars

---------------------------------------------------------------------------
(* The report alone: any sequence of add_result calls from new(). *)

MaxResults == 3

ElapsedMs == {0, 1500}

TestOutcomes == {Killed(PlaceholderTests), Survived, Timeout, Error, Skipped}

\* A result as a caller of add_result may build it (every field is public).
AnyResult(outcome, ms) ==
    [ candidate             |-> [line |-> 1, column |-> 1],
      mutated_code          |-> << >>,
      test_result           |-> outcome,
      execution_time_ms     |-> ms,
      error_message         |-> None,
      killing_tests         |-> None,
      suggested_improvement |-> None ]

ReportInit ==
    lib = LibIdle /\ cli = CliIdle /\ service = ServiceIdle /\ report = MutationReport_new /\ runner = RunnerIdle /\ EngineIdle

AddResult ==
    /\ Len(report.results) < MaxResults
    /\ \E outcome \in TestOutcomes, ms \in ElapsedMs :
           report' = add_result(report, AnyResult(outcome, ms))
    /\ UNCHANGED <<cli, service, lib, runner, engine_vars>>

ReportNext == AddResult

SpecReport == ReportInit /\ [][ReportNext]_vars

---------------------------------------------------------------------------
(* Direct calls of CodeMutator::apply_mutation and of the analyzer *)

\* The source texts the mutator is called with
MutatorSources ==
    { << >>,
      <<"a", "+", "b">>,
      <<"k", "=", "0">>,
      <<"x", "1", "&", "&", "y", "\n", "!", "z">>,
      <<"i", "f", " ", "a", " ", "{">>,
      <<"f", "(", "a", ")">>,
      <<E_ACUTE, "<", "b">>,
      <<"a", "+", "b", "\n", "!">> }

\* The columns of the candidates a caller builds by hand
ForeignColumns == {1, 3, 9}

\* Candidates no analyzer run produced: every field of MutationCandidate is
\* public, so a caller may pass any line, column, text and type.
ForeignCandidates ==
    {MutationCandidate(1, col, <<"a">>, "ConditionalBoundary", << <<"t">> >>) :
         col \in ForeignColumns}
    \cup {MutationCandidate(ln, 2, <<"+">>, "ArithmeticOperator", << <<"-">> >>) :
              ln \in {0, 1, 3}}
    \cup {ForeignCandidate}

\* What apply_mutation may be called with: a candidate of the analyzer or a
\* foreign one, and a replacement, suggested or not.
MutatorCalls ==
    UNION {UNION {{[source_code |-> src, candidate |-> c, mutation |-> m] :
                      m \in {c.suggested_mutations[j] :
                                 j \in 1..Len(c.suggested_mutations)} \cup {<<"?">>}} :
                  c \in {candidates_of(DefaultConfig, src)[i] :
                             i \in 1..Len(candidates_of(DefaultConfig, src))}
                        \cup ForeignCandidates} :
           src \in MutatorSources}

LibInit ==
    lib = LibIdle /\ cli = CliIdle /\ service = ServiceIdle /\ report = MutationReport_new /\ runner = RunnerIdle /\ EngineIdle

CallApplyMutation ==
    /\ lib.pc = "idle"
    /\ \E call \in MutatorCalls :
           lib' = [pc |-> "called", fn |-> "apply_mutation",
                   source_code |-> call.source_code, candidate |-> call.candidate,
                   mutation |-> call.mutation, ret |-> None]
    /\ UNCHANGED <<cli, service, report, runner, engine_vars>>

\* The call returns its Result, or aborts where the code indexes out of range
ReturnApplyMutation ==
    /\ lib.pc = "called" /\ lib.fn = "apply_mutation"
    /\ LET r == apply_mutation(lib.source_code, lib.candidate, lib.mutation)
       IN  lib' = [lib EXCEPT !.pc = IF IsPanic(r) THEN "aborted" ELSE "returned",
                              !.ret = Some(r)]
    /\ UNCHANGED <<cli, service, report, runner, engine_vars>>

\* The source texts the analyzer is called with: ASCII lines, lines with
\* compound operators, two-byte characters, a run of digits beyond i32
AnalyzerSources ==
    { << >>,
      <<"a", "+", "b">>,
      <<"x", "1", "&", "&", "y", "\n", "!", "z">>,
      <<"k", "=", "=", "t", "r", "u", "e", " ", "1", "2", "3", "4", "5", "6", "7", "8", "9", "0", "1">>,
      <<"a", "<", "=", "b", "-", ">", "c">>,
      <<"2", "1", "4", "7", "4", "8", "3", "6", "4", "7">>,
      <<"k", "=", "0", "0", "7", "+", "1", "0">>,
      <<"1", "+", "2", "+", "3", "+", "4">>,
      <<E_ACUTE, "+", "b">>,
      <<E_ACUTE, E_ACUTE, E_ACUTE, "+", "b">>,
      <<E_ACUTE, E_ACUTE, E_ACUTE, E_ACUTE, E_ACUTE, " ", "t", "r", "u", "e">> }

\* The configurations the analyzer is built with
AnalyzerConfigs ==
    {[DefaultConfig EXCEPT !.mutation_types = types] :
         types \in {AllMutationTypes, {"ArithmeticOperator"}, {"BooleanLiteral"},
                    {"NumericLiteral"}, {}}}

CallFindCandidates ==
    /\ lib.pc = "idle"
    /\ \E src \in AnalyzerSources, cfg \in AnalyzerConfigs :
           lib' = [pc |-> "called", fn |-> "find_mutation_candidates",
                   source_code |-> src, config |-> cfg, ret |-> None]
    /\ UNCHANGED <<cli, service, report, runner, engine_vars>>

\* The call returns its Vec, or aborts where the code indexes out of range
ReturnFindCandidates ==
    /\ lib.pc = "called" /\ lib.fn = "find_mutation_candidates"
    /\ LET r == find_mutation_candidates(lib.config, lib.source_code)
       IN  lib' = [lib EXCEPT !.pc = IF IsPanic(r) THEN "aborted" ELSE "returned",
                              !.ret = Some(r)]
    /\ UNCHANGED <<cli, service, report, runner, engine_vars>>

\* MutationEngine::dry_run: the analyzer's candidates, nothing else
dry_run(config, source_code) ==
    LET candidates == find_mutation_candidates(config, source_code)
    IN  IF IsPanic(candidates) THEN candidates ELSE Ok(candidates.val)

\* A function whose signature and body share one line
ONE_LINE_AND == <<"f", "n", " ", "f", "(", "a", ":", "b", "o", "o", "l", ",", "b", ":", "b", "o", "o", "l", ")", "-", ">", "b", "o", "o", "l", "{", "a", "&", "&", "b", "}">>

ONE_LINE_ADD == <<"f", "n", " ", "a", "d", "d", "(", "a", ":", "i", "3", "2", ",", "b", ":", "i", "3", "2", ")", "-", ">", "i", "3", "2", "{", "a", "+", "b", "}">>

\* The source texts dry_run is called with
DryRunSources ==
    { ONE_LINE_AND,
      ONE_LINE_ADD,
      <<"f", "n", " ", "f", "(", "a", ":", "b", "o", "o", "l", ",", "b", ":", "b", "o", "o", "l", ")", "-", ">", "b", "o", "o", "l", "{", "\n", "a", "&", "&", "b", "\n", "}">>,
      <<"a", "&", "&", "b">>,
      <<"a", "+", "b">> }

CallDryRun ==
    /\ lib.pc = "idle"
    /\ \E src \in DryRunSources :
           lib' = [pc |-> "called", fn |-> "dry_run",
                   source_code |-> src, config |-> DefaultConfig, ret |-> None]
    /\ UNCHANGED <<cli, service, report, runner, engine_vars>>

ReturnDryRun ==
    /\ lib.pc = "called" /\ lib.fn = "dry_run"
    /\ LET r == dry_run(lib.config, lib.source_code)
       IN  lib' = [lib EXCEPT !.pc = IF IsPanic(r) THEN "aborted" ELSE "returned",
                              !.ret = Some(r)]
    /\ UNCHANGED <<cli, service, report, runner, engine_vars>>

LibNext ==
    \/ CallDryRun
    \/ ReturnDryRun
    \/ CallApplyMutation
    \/ ReturnApplyMutation
    \/ CallFindCandidates
    \/ ReturnFindCandidates

SpecLib == LibInit /\ [][LibNext]_vars

---------------------------------------------------------------------------
(* main.rs: run_queue_runner *)

MaxDeliveries == 3

\* What MutationEngine::run_mutation_testing hands back to its caller: a
\* report, an error message, or the panic of a worker that unwinds through
\* the caller.
EngineReturnKinds == {"ok", "err", "panic"}

\* What the consumer stream yields: a transport error, a payload that is no
\* MutationJob, a job whose file cannot be read, or a job that reaches the engine
DeliveryShapes ==
    {[kind |-> k, engine |-> "none"] :
         k \in {"transport_error", "bad_payload", "unreadable_file"}}
    \cup {[kind |-> "job", engine |-> e] : e \in EngineReturnKinds}

DeliveryQueues ==
    UNION {[1..n -> DeliveryShapes] : n \in 0..MaxDeliveries}

\* picked: the delivery tags taken from the stream; returned: the tags whose
\* engine run has returned; acked: the tags acknowledged, in order
QueueInit ==
    /\ lib = LibIdle /\ service = ServiceIdle
    /\ report = MutationReport_new /\ runner = RunnerIdle /\ EngineIdle
    /\ \E ds \in DeliveryQueues :
           cli = [pc |-> "connect", command |-> "queue-runner", deliveries |-> ds,
                  picked |-> << >>, returned |-> {}, acked |-> << >>, ret |-> None]

\* `return` or `?`: run_queue_runner hands value to main
QueueReturns(c, value) == [c EXCEPT !.pc = "done", !.ret = Some(value)]

\* The delivery being worked on
CurrentTag(c) == c.picked[Len(c.picked)]

\* A plausible variant: a payload that cannot be parsed is acknowledged, so
\* that the broker does not deliver it again, before the error is returned.
on_delivery_ack_poison(c, d) ==
    IF d.kind = "bad_payload"
    THEN QueueReturns([c EXCEPT !.acked = Append(@, CurrentTag(c))], Err("deserialize"))
    ELSE IF d.kind = "unreadable_file"
    THEN QueueReturns(c, Err("read_to_string"))
    ELSE [c EXCEPT !.pc = "engine"]

\* From serde_json::from_slice(..)? to the call of the engine
on_delivery(c, d) ==
    IF d.kind = "bad_payload"
    THEN QueueReturns(c, Err("deserialize"))
    ELSE IF d.kind = "unreadable_file"
    THEN QueueReturns(c, Err("read_to_string"))
    ELSE [c EXCEPT !.pc = "engine"]

\* A plausible variant: the engine's result is unwrapped with `?`.
on_engine_return_unwrapped(c, d) ==
    IF d.engine = "panic" THEN [c EXCEPT !.pc = "aborted"]
    ELSE IF d.engine = "err"
    THEN QueueReturns([c EXCEPT !.returned = @ \cup {CurrentTag(c)}], Err("engine"))
    ELSE [c EXCEPT !.pc = "ack", !.returned = @ \cup {CurrentTag(c)}]

\* `let report = engine.run_mutation_testing(&code).await;`: Ok and Err alike
\* lead on to basic_ack; a panic unwinds through run_queue_runner.
on_engine_return(c, d) ==
    IF d.engine = "panic" THEN [c EXCEPT !.pc = "aborted"]
    ELSE [c EXCEPT !.pc = "ack", !.returned = @ \cup {CurrentTag(c)}]

\* Connection::connect, create_channel, queue_declare, basic_consume
QueueConnect ==
    /\ cli.pc = "connect"
    /\ \/ cli' = [cli EXCEPT !.pc = "consume"]
       \/ cli' = QueueReturns(cli, Err("connect"))
    /\ UNCHANGED <<service, lib, report, runner, engine_vars>>

\* consumer.next().await and `delivery?`: the stream ends, yields an error,
\* or yields the next delivery
QueueNextDelivery ==
    /\ cli.pc = "consume"
    /\ LET tag == Len(cli.picked) + 1
       IN  IF tag > Len(cli.deliveries)
           THEN cli' = QueueReturns(cli, Ok("unit"))
           ELSE IF cli.deliveries[tag].kind = "transport_error"
           THEN cli' = QueueReturns([cli EXCEPT !.picked = Append(@, tag)], Err("transport"))
           ELSE cli' = [cli EXCEPT !.pc = "delivered", !.picked = Append(@, tag)]
    /\ UNCHANGED <<service, lib, report, runner, engine_vars>>

QueueHandleDelivery ==
    /\ cli.pc = "delivered"
    /\ cli' = on_delivery(cli, cli.deliveries[CurrentTag(cli)])
    /\ UNCHANGED <<service, lib, report, runner, engine_vars>>

QueueEngineReturns ==
    /\ cli.pc = "engine"
    /\ cli' = on_engine_return(cli, cli.deliveries[CurrentTag(cli)])
    /\ UNCHANGED <<service, lib, report, runner, engine_vars>>

\* channel.basic_ack(delivery_tag).await?
QueueAck ==
    /\ cli.pc = "ack"
    /\ \/ cli' = [cli EXCEPT !.pc = "consume", !.acked = Append(@, CurrentTag(cli))]
       \/ cli' = QueueReturns(cli, Err("basic_ack"))
    /\ UNCHANGED <<service, lib, report, runner, engine_vars>>

QueueRunnerNext ==
    \/ QueueConnect
    \/ QueueNextDelivery
    \/ QueueHandleDelivery
    \/ QueueEngineReturns
    \/ QueueAck

SpecQueue == QueueInit /\ [][QueueRunnerNext]_vars

---------------------------------------------------------------------------
(* main.rs: the test-files command *)

MaxFiles == 2

\* An input file: unreadable, or readable with what the engine returns for
\* it.  "err" is the Err of run_mutation_testing, which only
\* validate_test_setup produces (no test marker, baseline not runnable).
FileShapes ==
    {"unreadable", "ok_no_candidates", "ok_killed", "ok_survived", "err", "panic"}

\* --config and --file-list: absent, readable, unreadable, or (the
\* configuration) not valid TOML
OptionalInputs == {"none", "ok", "unreadable"}

\* --json with several files: std::fs::write(json_path, ..)?
JsonExports == {"none", "written", "write_fails"}

\* seen: the files the loop has reached; exit: the exit code of the process
TestFilesInit ==
    /\ lib = LibIdle /\ service = ServiceIdle
    /\ report = MutationReport_new /\ runner = RunnerIdle /\ EngineIdle
    /\ \E fs \in UNION {[1..n -> FileShapes] : n \in 0..MaxFiles},
          cfg \in OptionalInputs \cup {"invalid"}, list \in OptionalInputs,
          json \in JsonExports :
           cli = [pc |-> "config", command |-> "test-files", config |-> cfg,
                  file_list |-> list, files |-> fs, json |-> json,
                  seen |-> 0, reports |-> << >>, exit |-> None]

\* main returns: Ok(()) is exit code 0, an Err is exit code 1
Exits(c, result) ==
    [c EXCEPT !.pc = "exited", !.exit = Some(IF result.ok THEN 0 ELSE 1)]

\* fs::read_to_string(cfg_path)? and toml::from_str(..)?
TestFilesLoadConfig ==
    /\ cli.pc = "config"
    /\ cli' = IF cli.config \in {"unreadable", "invalid"}
              THEN Exits(cli, Err("config"))
              ELSE [cli EXCEPT !.pc = "file_list"]
    /\ UNCHANGED <<service, lib, report, runner, engine_vars>>

\* fs::read_to_string(list_path)?, then the check that there are files
TestFilesReadList ==
    /\ cli.pc = "file_list"
    /\ cli' = IF cli.file_list = "unreadable" THEN Exits(cli, Err("file_list"))
              ELSE IF cli.files = << >> THEN Exits(cli, Ok("unit"))
              ELSE [cli EXCEPT !.pc = "files"]
    /\ UNCHANGED <<service, lib, report, runner, engine_vars>>

\* The head of the loop over all_files: fs::read_to_string(&file)?
TestFilesNextFile ==
    /\ cli.pc = "files"
    /\ cli.seen < Len(cli.files)
    /\ cli' = IF cli.files[cli.seen + 1] = "unreadable"
              THEN Exits([cli EXCEPT !.seen = @ + 1], Err("read_to_string"))
              ELSE [cli EXCEPT !.pc = "engine", !.seen = @ + 1]
    /\ UNCHANGED <<service, lib, report, runner, engine_vars>>

\* match engine.run_mutation_testing(&code).await: Ok(report) is kept and
\* logged, Err(e) is logged; a panic of the engine ends the process (101).
TestFilesEngineReturns ==
    /\ cli.pc = "engine"
    /\ LET shape == cli.files[cli.seen]
       IN  cli' = IF shape = "panic"
                  THEN [cli EXCEPT !.pc = "exited", !.exit = Some(101)]
                  ELSE IF shape = "err"
                  THEN [cli EXCEPT !.pc = "files"]
                  ELSE [cli EXCEPT !.pc = "files", !.reports = Append(@, cli.seen)]
    /\ UNCHANGED <<service, lib, report, runner, engine_vars>>

\* After the loop: the JSON export of several reports can fail with `?`;
\* the webhook only logs.  Then Ok(()).
TestFilesFinish ==
    /\ cli.pc = "files"
    /\ cli.seen = Len(cli.files)
    /\ cli' = IF cli.json = "write_fails" /\ Len(cli.reports) # 1
              THEN Exits(cli, Err("json"))
              ELSE Exits(cli, Ok("unit"))
    /\ UNCHANGED <<service, lib, report, runner, engine_vars>>

TestFilesNext ==
    \/ TestFilesLoadConfig
    \/ TestFilesReadList
    \/ TestFilesNextFile
    \/ TestFilesEngineReturns
    \/ TestFilesFinish

SpecTestFiles == TestFilesInit /\ [][TestFilesNext]_vars

---------------------------------------------------------------------------
(* services/mutation_service.rs and handlers/mutations.rs *)

MaxRows == 2

MutationTestStatus == {"Pending", "Running", "Completed", "Failed", "Cancelled"}

\* The stored row of the test: None when no row has the id
StoredRows ==
    {None} \cup {Some([status |-> s, started_at |-> FALSE, completed_at |-> FALSE]) :
                    s \in MutationTestStatus \ {"Running"}}

\* UPDATE mutation_tests SET status = .. WHERE id = .. RETURNING ..,
\* fetch_one: an unconditional update of the row, an error when no row has
\* the id or the query fails.
update_mutation_test_status(row, status, db_ok) ==
    IF ~db_ok THEN Err("Database")
    ELSE IF ~row.some THEN Err("RowNotFound")
    ELSE Ok(Some([status       |-> status,
                  started_at   |-> row.val.started_at \/ status = "Running",
                  completed_at |-> row.val.completed_at
                                     \/ status \in {"Completed", "Failed", "Cancelled"}]))

\* start_mutation_testing has spawned the task; the handler still has to
\* read the row for its response.
ServiceInit ==
    /\ lib = LibIdle /\ cli = CliIdle
    /\ report = MutationReport_new /\ runner = RunnerIdle /\ EngineIdle
    /\ \E row \in StoredRows, kind \in EngineReturnKinds, n \in 0..MaxRows :
           service = [pc |-> "spawned", row |-> row, engine |-> kind,
                      results |-> n, inserted |-> 0, ret |-> None,
                      response |-> None]

ServiceReturns(s, value) == [s EXCEPT !.pc = "returned", !.ret = Some(value)]

\* update_mutation_test_status(pool, id, Running).await?
ServiceMarkRunning ==
    /\ service.pc = "spawned"
    /\ \E db_ok \in BOOLEAN :
          LET updated == update_mutation_test_status(service.row, "Running", db_ok)
          IN  service' = IF IsErr(updated) THEN ServiceReturns(service, updated)
                         ELSE [service EXCEPT !.pc = "engine", !.row = updated.val]
    /\ UNCHANGED <<cli, lib, report, runner, engine_vars>>

\* match engine.run_mutation_testing(..).await: the Err arm returns
\* AppError::Internal at once; a panic ends the spawned task.
ServiceEngineReturns ==
    /\ service.pc = "engine"
    /\ service' = IF service.engine = "panic" THEN [service EXCEPT !.pc = "panicked"]
                  ELSE IF service.engine = "err"
                  THEN ServiceReturns(service, Err("Internal"))
                  ELSE [service EXCEPT !.pc = "insert"]
    /\ UNCHANGED <<cli, lib, report, runner, engine_vars>>

\* INSERT INTO mutation_results .. .execute(pool).await? for one result
ServiceInsertResult ==
    /\ service.pc = "insert"
    /\ service.inserted < service.results
    /\ \E db_ok \in BOOLEAN :
          service' = IF db_ok THEN [service EXCEPT !.inserted = @ + 1]
                     ELSE ServiceReturns(service, Err("Database"))
    /\ UNCHANGED <<cli, lib, report, runner, engine_vars>>

\* update_mutation_test_status(pool, id, Completed).await?, Ok(mutation_test)
ServiceMarkCompleted ==
    /\ service.pc = "insert"
    /\ service.inserted = service.results
    /\ \E db_ok \in BOOLEAN :
          LET updated == update_mutation_test_status(service.row, "Completed", db_ok)
          IN  service' = IF IsErr(updated) THEN ServiceReturns(service, updated)
                         ELSE ServiceReturns([service EXCEPT !.row = updated.val],
                                             Ok(updated.val.val.status))
    /\ UNCHANGED <<cli, lib, report, runner, engine_vars>>

\* The handler's get_mutation_test, at any moment of the spawned task
HandlerReads ==
    /\ service.pc # "idle"
    /\ service.response = None
    /\ service' = [service EXCEPT !.response =
                      Some(IF service.row.some THEN Ok(service.row.val.status)
                                               ELSE Err("NotFound"))]
    /\ UNCHANGED <<cli, lib, report, runner, engine_vars>>

ServiceNext ==
    \/ ServiceMarkRunning
    \/ ServiceEngineReturns
    \/ ServiceInsertResult
    \/ ServiceMarkCompleted
    \/ HandlerReads

SpecService == ServiceInit /\ [][ServiceNext]_vars

---------------------------------------------------------------------------
(* Properties *)

RunReturned ==
    engine.pc = "done" /\ engine.entry = "run_mutation_testing"

\* The (candidate, replacement) index pairs in canonical order
CanonicalPairs(cands) ==
    concat([i \in 1..Len(cands) |->
               [j \in 1..Len(cands[i].suggested_mutations) |-> <<i, j>>]])

\* The mutated text the pair must carry: the mutator's output, or the empty
\* text when the mutation cannot be applied
ExpectedCode(pair) ==
    LET c == engine.candidates[pair[1]]
        a == apply_mutation(engine.source_code, c, c.suggested_mutations[pair[2]])
    IN  IF a.ok THEN a.val ELSE << >>

\* C1: a returned report lists the results in canonical order (candidates in
\* analyzer order, within a candidate its replacements in suggestion order),
\* whichever thread ran which candidate and in whatever order they finished.
C1_CanonicalOrder ==
    (RunReturned /\ engine.ret.val.ok) =>
        LET rs == engine.ret.val.val.results
            ps == CanonicalPairs(engine.candidates)
        IN  /\ Len(rs) = Len(ps)
            /\ \A k \in 1..Len(rs) :
                   /\ rs[k].candidate = engine.candidates[ps[k][1]]
                   /\ rs[k].mutated_code = ExpectedCode(ps[k])

\* C1 witness: a report was returned although the first candidate was not the
\* first to finish.
C1_Witness ==
    /\ RunReturned /\ engine.ret.val.ok
    /\ Len(stats.completion) >= 2
    /\ stats.completion[1] # 1

\* C2: a baseline that exits non-zero aborts the call with an error; nothing
\* is mutated and no mutant is tested.
C2_RedBaselineAborts ==
    (engine.pc # "idle" /\ stats.baseline_exit.some /\ stats.baseline_exit.val # 0) =>
        /\ engine.pc = "done" /\ ~engine.ret.val.ok
        /\ stats.applied = 0
        /\ stats.mutant_runs = 0

\* C3: for a source with neither #[test] nor #[cfg(test)] the call returns an
\* error and runs no test command, for the baseline or for a mutant.
C3_NoMarkersNoRun ==
    ( /\ engine.pc # "idle"
      /\ engine.entry = "run_mutation_testing"
      /\ ~contains(engine.source_code, TEST_MARKER)
      /\ ~contains(engine.source_code, CFG_TEST_MARKER) ) =>
        /\ engine.pc \in {"validate", "done"}
        /\ engine.pc = "done" => ~engine.ret.val.ok
        /\ stats.test_runs = 0
        /\ stats.applied = 0

\* C3 witness: the call has returned for a source without test markers.
C3_Witness ==
    /\ RunReturned
    /\ ~contains(engine.source_code, TEST_MARKER)
    /\ ~contains(engine.source_code, CFG_TEST_MARKER)

\* C4: after any sequence of add_result calls total_mutations is the number
\* of results and the sum of the five outcome counters.
C4_TotalIsSum ==
    /\ report.total_mutations = Len(report.results)
    /\ report.total_mutations =
           report.killed_mutations + report.survived_mutations
           + report.timeout_mutations + report.error_mutations
           + report.skipped_mutations

\* C4 witness: several results were added, a timeout and a skip among them.
C4_Witness ==
    /\ report.total_mutations >= 3
    /\ report.timeout_mutations >= 1
    /\ report.skipped_mutations >= 1

\* C5: mutation_score is 100 * (killed + timeout) / (total - skipped - error)
\* when that denominator is positive and 0 otherwise.
C5_Score ==
    LET den == report.total_mutations - report.skipped_mutations
               - report.error_mutations
        det == report.killed_mutations + report.timeout_mutations
        sc  == report.mutation_score
    IN  /\ sc.den > 0
        /\ IF den > 0
           THEN sc.num * den = 100 * det * sc.den
           ELSE sc.num = 0

\* C5 witness: a timeout is counted as detected while an error is left out of
\* the denominator.
C5_Witness ==
    /\ report.timeout_mutations >= 1
    /\ report.error_mutations >= 1
    /\ report.survived_mutations >= 1

C7_OverdueIsTimeout ==
    (runner.pc = "done" /\ runner.overdue) => runner.outcome = Some(Timeout)

\* C7, the liveness half: once the deadline has passed with the child still
\* running, the run returns.
C7_OverdueReturns == runner.overdue ~> (runner.pc = "done")

\* C8: a completed run is classified by exactly one rule: a failure before
\* the child ran gives Error, exit status 0 Survived, any other status Killed.
C8_Classification ==
    runner.pc = "done" =>
        LET o == runner.outcome.val
        IN  /\ (runner.fail # "none") # (runner.child = "exited")
            /\ runner.fail # "none" => o = Error
            /\ (runner.child = "exited" /\ exit_code(runner.status) = 0) => o = Survived
            /\ (runner.child = "exited" /\ exit_code(runner.status) # 0) =>
                   o = Killed(PlaceholderTests)

\* C8 witness: a run whose test command exited with status 1 was classified.
C8_Witness ==
    /\ runner.pc = "done"
    /\ runner.child = "exited"
    /\ runner.status = Some(1)

\* C9: never more than config.parallel_jobs units are active at once (the
\* host's logical CPU count when parallel_jobs is absent).
C9_ActiveUnitsBounded ==
    engine.pc = "fanout" =>
        ActiveUnits <= (IF engine.config.parallel_jobs.some
                        THEN engine.config.parallel_jobs.val
                        ELSE HostCpus)

\* The results an entry point has returned
ReturnedResults ==
    IF engine.pc = "done" /\ engine.ret.val.ok
    THEN IF engine.entry = "run_mutation_testing"
         THEN {engine.ret.val.val.results[k] :
                   k \in 1..Len(engine.ret.val.val.results)}
         ELSE {engine.ret.val.val}
    ELSE {}

\* C10: every returned result whose test_result is Error carries an
\* error_message.
C10_ErrorHasMessage ==
    \A r \in ReturnedResults :
        r.test_result = Error => (r.error_message.some /\ r.error_message.val # "")

\* C11: every returned result whose test_result is Survived carries a
\* non-empty suggested_improvement.
C11_SurvivedHasHint ==
    \A r \in ReturnedResults :
        r.test_result = Survived =>
            (r.suggested_improvement.some /\ r.suggested_improvement.val # "")

\* C11 witness: a report of run_mutation_testing holds a survived mutant.
C11_Witness ==
    /\ RunReturned
    /\ \E r \in ReturnedResults : r.test_result = Survived

\* A direct call of apply_mutation has ended, by a return or by a panic
ApplyEnded ==
    lib.fn = "apply_mutation" /\ lib.pc \in {"returned", "aborted"}

Suggested(c) == {c.suggested_mutations[j] : j \in 1..Len(c.suggested_mutations)}

\* C12: apply_mutation returns a failure, and no text, whenever the
\* replacement is not among the candidate's suggestions or the candidate's
\* line is 0 or beyond the last line of the source.
C12_Preconditions ==
    ( /\ ApplyEnded
      /\ \/ lib.mutation \notin Suggested(lib.candidate)
         \/ lib.candidate.line = 0
         \/ lib.candidate.line > Len(lines(lib.source_code)) ) =>
        /\ lib.pc = "returned"
        /\ ~lib.ret.val.ok

\* C12 witness: a call with a suggested replacement and line 0 has returned.
C12_Witness ==
    /\ ApplyEnded
    /\ lib.mutation \in Suggested(lib.candidate)
    /\ lib.candidate.line = 0

\* C13: apply_mutation returns a failure for every pair whose replacement
\* equals the candidate's original_code.
C13_SelfReplacementRejected ==
    (ApplyEnded /\ lib.mutation = lib.candidate.original_code) =>
        (lib.pc = "returned" /\ ~lib.ret.val.ok)

\* The 1-based index in s of the first character of line n (lines end at "\n")
LineStart(s, n) ==
    IF n = 1 THEN 1
    ELSE LET nl == {i \in 1..Len(s) : s[i] = "\n"}
             before(i) == Cardinality({j \in nl : j < i})
         IN  IF Cardinality(nl) < n - 1 THEN Len(s) + 2
             ELSE (CHOOSE i \in nl : before(i) = n - 2) + 1

\* out is s with the one span that holds c.original_code at (c.line, c.column)
\* replaced by m, and differs from s
OneSpanReplaced(s, c, m, out) ==
    LET k == LineStart(s, c.line) + c.column - 1
        e == k + Len(c.original_code) - 1
    IN  /\ e <= Len(s)
        /\ SubSeq(s, k, e) = c.original_code
        /\ out = SubSeq(s, 1, k - 1) \o m \o SubSeq(s, e + 1, Len(s))
        /\ out # s

AnalyzerCandidates(config, s) ==
    {candidates_of(config, s)[i] : i \in 1..Len(candidates_of(config, s))}

\* C14: for a candidate of the analyzer and one of its suggestions
\* apply_mutation succeeds, and the result is the source with exactly the span
\* at the candidate's line and column replaced.
C14_OneSpanAtColumn ==
    ( /\ ApplyEnded
      /\ lib.candidate \in AnalyzerCandidates(DefaultConfig, lib.source_code)
      /\ lib.mutation \in Suggested(lib.candidate) ) =>
        /\ lib.pc = "returned"
        /\ lib.ret.val.ok
        /\ OneSpanReplaced(lib.source_code, lib.candidate, lib.mutation, lib.ret.val.val)

\* C15: apply_mutation always returns, a text or a failure value; it never
\* aborts on an index or a slice out of range.
C15_NeverAborts ==
    lib.fn = "apply_mutation" => lib.pc # "aborted"

\* C16: every returned result with a non-empty mutated_code has its
\* candidate's line within the lines of that text, and an empty mutated_code
\* marks a mutation that could not be applied.
C16_LineWithinMutant ==
    \A r \in ReturnedResults :
        /\ r.mutated_code # << >> =>
               (r.candidate.line >= 1 /\ r.candidate.line <= Len(lines(r.mutated_code)))
        /\ r.mutated_code = << >> =>
               (r.test_result = Error /\ r.error_message.some)

\* C16, for the reports of run_mutation_testing alone
C16_LineWithinMutantOfReport ==
    engine.entry = "run_mutation_testing" => C16_LineWithinMutant

\* C16, for the results of test_single_mutation alone
C16_LineWithinMutantOfSingle ==
    engine.entry = "test_single_mutation" => C16_LineWithinMutant

\* C17: find_mutation_candidates never fails: for every source text and
\* configuration the call returns a candidate list.
C17_AnalyzerNeverFails ==
    lib.fn = "find_mutation_candidates" => lib.pc # "aborted"

\* A call of dry_run on source s has ended
DryRunEnded(s) ==
    lib.fn = "dry_run" /\ lib.pc \in {"returned", "aborted"} /\ lib.source_code = s

\* The call returned exactly one candidate, of the given type, text and
\* suggestions
ReturnedOne(type, original, suggestions) ==
    /\ lib.pc = "returned" /\ lib.ret.val.ok
    /\ Len(lib.ret.val.val) = 1
    /\ lib.ret.val.val[1].mutation_type = type
    /\ lib.ret.val.val[1].original_code = original
    /\ lib.ret.val.val[1].suggested_mutations = suggestions

\* C18: for a function written on one line dry_run returns exactly one
\* candidate, the operator of the body (`&&` with ["||"], `+` with ["-","*"]),
\* and it applies no mutation and runs no test command.
C18_OneLineFunction ==
    /\ DryRunEnded(ONE_LINE_AND) =>
           ReturnedOne("LogicalOperator", <<"&", "&">>, << <<"|", "|">> >>)
    /\ DryRunEnded(ONE_LINE_ADD) =>
           ReturnedOne("ArithmeticOperator", <<"+">>, << <<"-">>, <<"*">> >>)
    /\ lib.fn = "dry_run" => (stats = NoStats /\ runner = RunnerIdle)

\* C19: for the empty source the analyzer returns the empty list and
\* run_mutation_testing returns Ok with an empty report (no results, every
\* counter 0, score 0).
C19_EmptySource ==
    /\ find_mutation_candidates(DefaultConfig, << >>) = Ok(<< >>)
    /\ (RunReturned /\ engine.source_code = << >>) =>
           /\ engine.ret.val.ok
           /\ engine.ret.val.val.results = << >>
           /\ engine.ret.val.val.total_mutations = 0
           /\ engine.ret.val.val.mutation_score = FracZero

\* The sum of the execution times of the results, as add_result adds them up
RECURSIVE SumOfTimes(_)
SumOfTimes(results) ==
    IF results = << >> THEN 0
    ELSE Head(results).execution_time_ms + SumOfTimes(Tail(results))

\* C20: execution_time_seconds of a returned report is the wall-clock time
\* from the enumeration of the candidates to the end of the aggregation.
C20_WallClockOfSteps2To5 ==
    (RunReturned /\ engine.ret.val.ok /\ stats.enumerated_at.some) =>
        engine.ret.val.val.execution_time_seconds = now - stats.enumerated_at.val

\* C20, the other half: the stamp is the time since the call began, whatever
\* the per-mutant times add up to.
C20_StampedSinceCallBegan ==
    (RunReturned /\ engine.ret.val.ok /\ engine.candidates # << >>) =>
        engine.ret.val.val.execution_time_seconds = now - engine.start_time

\* C20 witness of the other half: a report whose stamp differs from the sum of
\* its results' times.
C20_StampIsNotTheSum ==
    /\ RunReturned /\ engine.ret.val.ok
    /\ engine.ret.val.val.execution_time_seconds
           # SumOfTimes(engine.ret.val.val.results)

FindEnded ==
    lib.fn = "find_mutation_candidates" /\ lib.pc \in {"returned", "aborted"}

OperatorTypes == {"ArithmeticOperator", "RelationalOperator", "LogicalOperator"}

\* The candidate's text, on its line, touches one of = ! < > + - * /
TouchesCompoundChar(line, c) ==
    LET i == char_index(line, c.column - 1)
        e == i + Len(c.original_code) + 1
    IN  \/ i > 0 /\ line[i] \in CompoundChars
        \/ e <= Len(line) /\ line[e] \in CompoundChars

\* C24: every candidate of an operator type (arithmetic, relational,
\* logical) that the analyzer returns is standalone: the characters just
\* before and just after it are none of = ! < > + - * /.
C24_OperatorsStandalone ==
    (FindEnded /\ lib.pc = "returned") =>
        \A k \in 1..Len(lib.ret.val.val) :
            LET c == lib.ret.val.val[k]
            IN  c.mutation_type \in OperatorTypes =>
                    ~TouchesCompoundChar(lines(lib.source_code)[c.line], c)

\* C25: replacing an operator ends after at most one retry at the position
\* the probe found, on every line, lines with multi-byte characters included:
\* no call of apply_mutation for an operator candidate recurses without end.
C25_ProbeRetriesOnce ==
    (ApplyEnded /\ lib.candidate.mutation_type \in OperatorTypes) =>
        lib.ret.val # Panic("stack overflow")

\* The maximal runs of ASCII digits of a line, as <<first, last>> (1-based)
MaximalDigitRuns(line) ==
    {r \in (1..Len(line)) \X (1..Len(line)) :
        /\ r[1] <= r[2]
        /\ \A i \in r[1]..r[2] : is_ascii_digit(line[i])
        /\ (r[1] = 1 \/ ~is_ascii_digit(line[r[1] - 1]))
        /\ (r[2] = Len(line) \/ ~is_ascii_digit(line[r[2] + 1]))}

\* The decimal texts of n + 1, n - 1, -n, 0 and 1 for the digits of n,
\* computed on the digits, so without any bound on the values
ExactNumericSuggestions(digits) ==
    LET v == strip_leading_zeros(digits)
    IN  << dec_inc(v),
           IF v = <<"0">> THEN <<"-", "1">> ELSE strip_leading_zeros(dec_dec(v)),
           IF v = <<"0">> THEN <<"0">> ELSE <<"-">> \o v,
           <<"0">>, <<"1">> >>

\* C26: for every maximal run of digits on a line that is not skipped, with
\* a value n within i32, the analyzer returns exactly one NumericLiteral
\* candidate at the 1-based start of the run, and its suggestions are the
\* numbers n + 1, n - 1, -n, 0, 1 in this order.
C26_NumericSuggestions ==
    ( /\ FindEnded /\ lib.pc = "returned"
      /\ "NumericLiteral" \in lib.config.mutation_types ) =>
        \A n \in 1..Len(lines(lib.source_code)) :
            LET line == lines(lib.source_code)[n]
                cs   == lib.ret.val.val
            IN  ~should_skip_line(lib.config, line) =>
                    \A r \in MaximalDigitRuns(line) :
                        LET digits == SubSeq(line, r[1], r[2])
                            at == {k \in 1..Len(cs) :
                                      /\ cs[k].mutation_type = "NumericLiteral"
                                      /\ cs[k].line = n /\ cs[k].column = r[1]}
                        IN  parse_i32(digits).ok =>
                                /\ Cardinality(at) = 1
                                /\ \A k \in at :
                                       /\ cs[k].original_code = digits
                                       /\ cs[k].suggested_mutations =
                                              ExactNumericSuggestions(digits)

\* C26, away from the largest value: the same statement for n < 2147483647
C26_NumericSuggestionsBelowMax ==
    ( /\ FindEnded /\ lib.pc = "returned"
      /\ "NumericLiteral" \in lib.config.mutation_types
      /\ lib.source_code # <<"2", "1", "4", "7", "4", "8", "3", "6", "4", "7">> ) =>
        C26_NumericSuggestions

\* C27: while the test command of an invocation runs, the scratch directory
\* of that invocation holds the project layout: the manifest, the source
\* under test below src/, and the stub entry point.
C27_LayoutMaterialized ==
    runner.child = "running" =>
        /\ runner.dir.exists
        /\ create_test_project_structure(NoDir).files \subseteq runner.dir.files

\* C28: when apply_mutation succeeds, the mutated text has as many lines as
\* the source, and every line but line candidate.line is the source's line.
C28_OnlyTargetLineChanges ==
    (ApplyEnded /\ lib.pc = "returned" /\ lib.ret.val.ok) =>
        LET old == lines(lib.source_code)
            new == lines(lib.ret.val.val)
        IN  /\ Len(new) = Len(old)
            /\ \A n \in 1..Len(old) : n # lib.candidate.line => new[n] = old[n]

\* C30: the analyzer returns at most config.max_mutations_per_line
\* candidates for any one line of the source.
C30_PerLineLimit ==
    (FindEnded /\ lib.pc = "returned") =>
        \A n \in 1..Len(lines(lib.source_code)) :
            Cardinality({k \in 1..Len(lib.ret.val.val) : lib.ret.val.val[k].line = n})
                <= lib.config.max_mutations_per_line

Acked == {cli.acked[i] : i \in 1..Len(cli.acked)}

Picked == {cli.picked[i] : i \in 1..Len(cli.picked)}

FailedDeliveries ==
    {t \in Picked :
        cli.deliveries[t].kind \in {"transport_error", "bad_payload", "unreadable_file"}}

\* C21: a delivery is acknowledged only once the engine run for its job has
\* returned; a delivery that failed in transport, whose payload cannot be
\* deserialized or whose file cannot be read is never acknowledged, and the
\* runner has then returned an error to its caller.
C21_AckOnlyAfterRun ==
    /\ Acked \subseteq cli.returned
    /\ \A t \in FailedDeliveries :
           /\ t \notin Acked
           /\ cli.pc \in {"delivered", "done"}
           /\ (cli.pc = "done" => (t = CurrentTag(cli) /\ ~cli.ret.val.ok))

\* C21 witness: the runner acknowledged a job after its engine run and then
\* returned an error for a later delivery that was no MutationJob.
C21_Witness ==
    /\ cli.pc = "done" /\ Acked # {}
    /\ cli.deliveries[CurrentTag(cli)].kind = "bad_payload"
    /\ ~cli.ret.val.ok

\* C29: a delivery with an invalid payload or an unreadable file ends the
\* loop: the runner returns the error, the delivery stays unacknowledged and
\* no later delivery is taken; a job whose engine run returned an error is
\* acknowledged like any other before the next delivery is taken, and the
\* runner never returns that error.
C29_PoisonEndsLoopEngineErrorDoesNot ==
    /\ \A t \in Picked :
           cli.deliveries[t].kind \in {"bad_payload", "unreadable_file"} =>
               /\ t = CurrentTag(cli)
               /\ t \notin Acked
               /\ cli.pc \in {"delivered", "done"}
               /\ (cli.pc = "done" => ~cli.ret.val.ok)
    /\ \A t \in cli.returned :
           /\ (t # CurrentTag(cli) => t \in Acked)
           /\ ((t \notin Acked /\ cli.pc = "done") => cli.ret.val = Err("basic_ack"))

\* C29 witness: a job whose engine run returned an error has been
\* acknowledged and the runner has taken a later delivery.
C29_Witness ==
    \E t \in Acked :
        cli.deliveries[t].engine = "err" /\ t < CurrentTag(cli)

\* C22: the test-files command exits with a code other than 0 when an input
\* file is unreadable or the baseline validation failed for a file, and with
\* 0 when every file ran successfully, with or without candidates or
\* survived mutations.
C22_ExitCodes ==
    cli.pc = "exited" =>
        /\ (\E i \in 1..cli.seen : cli.files[i] \in {"unreadable", "err"}) =>
               cli.exit.val # 0
        /\ ( /\ cli.seen = Len(cli.files)
             /\ \A i \in 1..cli.seen :
                    cli.files[i] \in {"ok_no_candidates", "ok_killed", "ok_survived"}
             /\ cli.config \in {"none", "ok"} /\ cli.file_list \in {"none", "ok"}
             /\ cli.json # "write_fails" ) =>
               cli.exit.val = 0

\* C23: once mutation_service::run_mutation_testing has returned, the stored
\* status of the test is not Running: every exit path, the error paths
\* included, has stored Completed or Failed.
C23_NeverLeftRunning ==
    (service.pc = "returned" /\ service.row.some) =>
        service.row.val.status # "Running"

===========================================================================
